---- MODULE Spec2Model ----
(***************************************************************************)
(* Model of the BFS -> IR -> Brainfuck compiler.                           *)
(*   lark_parser.py             the lowerer (AST -> IR), symbol table      *)
(*   instruction_set_parser.py  the backend (IR -> BF), peephole pass      *)
(* Strings are sequences of one-character strings.  An IR line is a record *)
(* [op, arg]; a comment line has op "#", an empty line has op "".          *)
(***************************************************************************)
EXTENDS Integers, Sequences, FiniteSets, TLC

VARIABLES
    symbols, next_address, declared,      \* SymbolTable fields; declaration history
    code, original, peep,                 \* peephole pass: current string, its input, position
    self_cursor, self_debug,              \* Parser fields of the instance parse is called on
    program, unit, input, tapeSize, wrap, \* a source program, its compiled unit, the run's environment
    turn, irpc, regA, regB, mem, irIn, irIO, irJumps,   \* IR machine
    bfpc, head, tape, bfIn, bfIO               \* BF machine

vars == <<symbols, next_address, declared, code, original, peep, self_cursor, self_debug,
          program, unit, input, tapeSize, wrap,
          turn, irpc, regA, regB, mem, irIn, irIO, irJumps,
          bfpc, head, tape, bfIn, bfIO>>

symVars == <<symbols, next_address, declared>>
peepVars == <<code, original, peep, self_cursor, self_debug>>
runVars == <<program, unit, input, tapeSize, wrap,
              turn, irpc, regA, regB, mem, irIn, irIO, irJumps,
              bfpc, head, tape, bfIn, bfIO>>

(***************************************************************************)
(* instruction_set_parser.py: register layout                              *)
(***************************************************************************)
REG_A == 0
REG_B == 1
TEMP == 2
memory_offset == 3
CellMod == 256

(***************************************************************************)
(* IR lines                                                                *)
(***************************************************************************)
Instr(o, a) == [op |-> o, arg |-> a]
Comment == Instr("#", 0)
EmptyLine == Instr("", 0)

(***************************************************************************)
(* lark_parser.py: SymbolTable                                             *)
(***************************************************************************)
EmptyMap == [n \in {} |-> 0]

InitNextAddress == 2

add_symbol(st, name) ==
    [st EXCEPT !.symbols = [n \in DOMAIN st.symbols \cup {name} |->
                               IF n = name THEN st.next_address ELSE st.symbols[n]],
               !.next_address = st.next_address + 1]

has_symbol(st, name) == name \in DOMAIN st.symbols

\* get_address raises "Undefined variable" for an unknown name
get_address_defined(st, name) == name \in DOMAIN st.symbols
get_address(st, name) == st.symbols[name]

\* f"go_else_{i}"
GoElseNames == <<"go_else_0", "go_else_1", "go_else_2", "go_else_3", "go_else_4", "go_else_5">>
go_else_name(i) == GoElseNames[i + 1]

\* if_statement's search loop: the smallest i whose go_else_i is not a symbol
RECURSIVE go_else_index(_, _)
go_else_index(st, i) ==
    IF has_symbol(st, go_else_name(i)) THEN go_else_index(st, i + 1) ELSE i

(***************************************************************************)
(* lark_parser.py: CodeGenerator.  A lowering result is [err, code]; err   *)
(* is "" when no exception was raised.                                     *)
(***************************************************************************)
Ok(c) == [err |-> "", code |-> c]
Raise(e) == [err |-> e, code |-> <<>>]

load_immediate(value) ==
    IF value < 0 \/ value > 255
    THEN Raise("out of range for 8-bit processor")
    ELSE Ok(<<Instr("LOAD_A_IMM", value)>>)

load_from_memory(address) == Instr("LOAD_A_MEM", address)
store_to_memory(address) == Instr("STORE_A", address)
load_b_from_memory(address) == Instr("LOAD_B_MEM", address)
loop_start == Instr("LOOP_START", 0)
loop_end == Instr("LOOP_END", 0)

(***************************************************************************)
(* lark_parser.py: ExpressionOptimizer                                     *)
(***************************************************************************)
_is_simple_expression(c) ==
    Len(c) = 1 /\ c[1].op \in {"LOAD_A_IMM", "LOAD_A_MEM"}

optimize_binary_operation(left_code, right_code, operation) ==
    IF _is_simple_expression(right_code) /\ right_code[1].op = "LOAD_A_IMM"
    THEN <<Comment>> \o left_code
            \o <<Instr("LOAD_B_IMM", right_code[1].arg), Instr(operation, 0)>>
    ELSE IF _is_simple_expression(right_code) /\ right_code[1].op = "LOAD_A_MEM"
    THEN <<Comment>> \o left_code
            \o <<Instr("LOAD_B_MEM", right_code[1].arg), Instr(operation, 0)>>
    ELSE <<Comment>> \o left_code \o <<Instr("STORE_A", 0)>> \o right_code
            \o <<Instr("STORE_A", 1), Instr("LOAD_B_MEM", 1), Instr("LOAD_A_MEM", 0),
                 Instr(operation, 0)>>

(***************************************************************************)
(* lark_parser.py: CompilerTransformer, expressions                        *)
(***************************************************************************)
IntConst(v) == [kind |-> "int", v |-> v]
StrConst == [kind |-> "str", v |-> 0]

InitDefinedConstants == [n \in {"true", "false"} |-> IF n = "true" THEN IntConst(1) ELSE IntConst(0)]

number(v) == load_immediate(v)

\* character: ord of the extracted character, range-checked, then load_immediate
character(ascii_value) ==
    IF ascii_value < 0 \/ ascii_value > 255
    THEN Raise("ASCII value out of range for 8-bit processor")
    ELSE load_immediate(ascii_value)

variable(var_name, ctx) ==
    IF var_name \in DOMAIN ctx.defined_constants
    THEN IF ctx.defined_constants[var_name].kind = "int"
         THEN load_immediate(ctx.defined_constants[var_name].v)
         ELSE Raise("Unsupported constant type")
    ELSE IF ~get_address_defined(ctx, var_name)
         THEN Raise("Undefined variable")
         ELSE Ok(<<Comment, load_from_memory(get_address(ctx, var_name))>>)

add(left_code, right_code) == optimize_binary_operation(left_code, right_code, "ADD")
subtract(left_code, right_code) == optimize_binary_operation(left_code, right_code, "SUB")

\* equal with the result cell initialised as not_equal initialises it
equal_assumes_unequal(left_code, right_code) ==
    <<Comment, Instr("LOAD_A_IMM", 0), store_to_memory(0)>>
      \o left_code \o <<store_to_memory(1)>>
      \o right_code
      \o <<load_b_from_memory(1), Instr("SUB", 0), loop_start,
           Instr("LOAD_A_IMM", 0), store_to_memory(0), Instr("LOAD_A_IMM", 0), loop_end,
           load_from_memory(0)>>

equal(left_code, right_code) ==
    <<Comment, Instr("LOAD_A_IMM", 1), store_to_memory(0)>>
      \o left_code \o <<store_to_memory(1)>>
      \o right_code
      \o <<load_b_from_memory(1), Instr("SUB", 0), loop_start,
           Instr("LOAD_A_IMM", 0), store_to_memory(0), Instr("LOAD_A_IMM", 0), loop_end,
           load_from_memory(0)>>

not_equal(left_code, right_code) ==
    <<Comment, Instr("LOAD_A_IMM", 0), store_to_memory(0)>>
      \o left_code \o <<store_to_memory(1)>>
      \o right_code
      \o <<load_b_from_memory(1), Instr("SUB", 0), loop_start,
           Instr("LOAD_A_IMM", 1), store_to_memory(0), Instr("LOAD_A_IMM", 0), loop_end,
           load_from_memory(0)>>

RECURSIVE LowerExpr(_, _)
LowerExpr(e, ctx) ==
    CASE e.t = "number" -> number(e.v)
      [] e.t = "character" -> character(e.v)
      [] e.t = "variable" -> variable(e.name, ctx)
      [] e.t = "parenthesized" -> LowerExpr(e.e, ctx)
      [] OTHER ->
           LET l == LowerExpr(e.l, ctx)
               r == LowerExpr(e.r, ctx)
           IN  IF l.err # "" THEN l
               ELSE IF r.err # "" THEN r
               ELSE CASE e.t = "add" -> Ok(add(l.code, r.code))
                      [] e.t = "subtract" -> Ok(subtract(l.code, r.code))
                      [] e.t = "equal" -> Ok(equal(l.code, r.code))
                      [] e.t = "not_equal" -> Ok(not_equal(l.code, r.code))

(***************************************************************************)
(* lark_parser.py: CompilerTransformer, statements.  A statement result is *)
(* [err, code, ctx]; ctx holds symbols, next_address, defined_constants.   *)
(***************************************************************************)
InitCtx == [symbols |-> EmptyMap, next_address |-> InitNextAddress,
            defined_constants |-> InitDefinedConstants]

SOk(c, ctx) == [err |-> "", code |-> c, ctx |-> ctx]
SRaise(e, ctx) == [err |-> e, code |-> <<>>, ctx |-> ctx]

RECURSIVE Flatten(_)
Flatten(items) == IF items = <<>> THEN <<>> ELSE Head(items) \o Flatten(Tail(items))

\* define_directive stores the constant and returns None (no code)
define_directive(name, value, ctx) ==
    SOk(<<>>, [ctx EXCEPT !.defined_constants =
                  [n \in DOMAIN ctx.defined_constants \cup {name} |->
                      IF n = name THEN value ELSE ctx.defined_constants[n]]])

variable_declaration(var_name, expr_code, ctx) ==
    SOk(<<Comment>> \o expr_code
          \o <<store_to_memory(get_address(add_symbol(ctx, var_name), var_name))>>,
        add_symbol(ctx, var_name))

assignment(var_name, expr_code, ctx) ==
    IF ~get_address_defined(ctx, var_name) THEN SRaise("Undefined variable", ctx)
    ELSE SOk(<<Comment>> \o expr_code \o <<store_to_memory(get_address(ctx, var_name))>>, ctx)

input_statement(var_name, ctx) ==
    IF ~get_address_defined(ctx, var_name) THEN SRaise("Undefined variable", ctx)
    ELSE SOk(<<Comment, Instr("IN_A", 0), store_to_memory(get_address(ctx, var_name))>>, ctx)

output_statement(expr_code) == <<Comment>> \o expr_code \o <<Instr("OUT_A", 0)>>

\* mutant of while_statement: the closing LOOP_END is not emitted
while_statement_unclosed(items) ==
    <<Comment>> \o items[1] \o <<loop_start>> \o Flatten(Tail(items)) \o items[1]

\* items = <<condition_code, body statement codes...>>
while_statement(items) ==
    <<Comment>> \o items[1] \o <<loop_start>> \o Flatten(Tail(items)) \o items[1]
        \o <<loop_end>>

else_clause(items) == <<Comment>> \o Flatten(items)

\* isinstance(items[-1], list): every child of an if_statement is a list
IsList(item) == TRUE

\* items = <<condition_code, statement codes..., [else_clause code]>>
has_else(items) == Len(items) > 2 /\ IsList(items[Len(items)])

if_body_statements(items) ==
    IF has_else(items) THEN SubSeq(items, 2, Len(items) - 1) ELSE SubSeq(items, 2, Len(items))

\* the smallest unused go_else_i, and the address add_symbol returns for it
go_else_symbol(ctx) == go_else_name(go_else_index(ctx, 0))
go_else_address(ctx) == get_address(add_symbol(ctx, go_else_symbol(ctx)), go_else_symbol(ctx))

\* mutant of if_statement: the then-branch does not clear go_else
if_statement_keeps_go_else(items, ctx) ==
    IF has_else(items)
    THEN SOk(<<Comment, Instr("LOAD_A_IMM", 1), store_to_memory(go_else_address(ctx))>>
               \o items[1] \o <<loop_start>> \o Flatten(if_body_statements(items))
               \o <<Instr("LOAD_A_IMM", 0), loop_end>>
               \o <<load_from_memory(go_else_address(ctx)), loop_start>>
               \o items[Len(items)]
               \o <<Instr("LOAD_A_IMM", 0), store_to_memory(go_else_address(ctx)), loop_end>>,
             add_symbol(ctx, go_else_symbol(ctx)))
    ELSE SOk(<<Comment>> \o items[1] \o <<loop_start>> \o Flatten(if_body_statements(items))
               \o <<loop_end>>, ctx)

if_statement(items, ctx) ==
    IF has_else(items)
    THEN SOk(<<Comment, Instr("LOAD_A_IMM", 1), store_to_memory(go_else_address(ctx))>>
               \o items[1] \o <<loop_start>> \o Flatten(if_body_statements(items))
               \o <<Instr("LOAD_A_IMM", 0), store_to_memory(go_else_address(ctx)), loop_end>>
               \o <<load_from_memory(go_else_address(ctx)), loop_start>>
               \o items[Len(items)]
               \o <<Instr("LOAD_A_IMM", 0), store_to_memory(go_else_address(ctx)), loop_end>>,
             add_symbol(ctx, go_else_symbol(ctx)))
    ELSE SOk(<<Comment>> \o items[1] \o <<loop_start>> \o Flatten(if_body_statements(items))
               \o <<loop_end>>, ctx)

\* program keeps the items that generated code
program_items(items) == Flatten(items)

\* The Transformer visits children left to right, then the node: lowering a
\* statement list threads the context.  Result: [err, items, ctx].
RECURSIVE LowerStmt(_, _)
RECURSIVE LowerStmts(_, _)

\* the results of a list from the result h of its first statement
AfterStmt(h, t) == [err |-> t.err, items |-> <<h.code>> \o t.items, ctx |-> t.ctx]
VisitRest(h, rest) ==
    IF h.err # "" THEN [err |-> h.err, items |-> <<>>, ctx |-> h.ctx]
    ELSE AfterStmt(h, LowerStmts(rest, h.ctx))

LowerStmts(stmts, ctx) ==
    IF stmts = <<>> THEN [err |-> "", items |-> <<>>, ctx |-> ctx]
    ELSE VisitRest(LowerStmt(Head(stmts), ctx), Tail(stmts))

\* a statement with one expression e: its handler runs on the expression's code
VisitSimple(s, e, ctx) ==
    IF e.err # "" THEN SRaise(e.err, ctx)
    ELSE CASE s.t = "variable_declaration" -> variable_declaration(s.name, e.code, ctx)
           [] s.t = "assignment" -> assignment(s.name, e.code, ctx)
           [] s.t = "output_statement" -> SOk(output_statement(e.code), ctx)
           [] s.t = "expression" -> SOk(e.code, ctx)

\* a while statement with condition result c and body results b
VisitWhile(c, b, ctx) ==
    IF c.err # "" THEN SRaise(c.err, ctx)
    ELSE IF b.err # "" THEN SRaise(b.err, b.ctx)
    ELSE SOk(while_statement(<<c.code>> \o b.items), b.ctx)

\* an if statement with condition result c, body results b, else results el
VisitIfElse(s, c, b, el, ctx) ==
    IF c.err # "" THEN SRaise(c.err, ctx)
    ELSE IF b.err # "" THEN SRaise(b.err, b.ctx)
    ELSE IF el.err # "" THEN SRaise(el.err, el.ctx)
    ELSE if_statement(<<c.code>> \o b.items
                        \o (IF s.else_body = <<>> THEN <<>> ELSE <<else_clause(el.items)>>),
                      el.ctx)
VisitIf(s, c, b, ctx) == VisitIfElse(s, c, b, LowerStmts(s.else_body, b.ctx), ctx)

LowerStmt(s, ctx) ==
    CASE s.t = "define_directive" -> define_directive(s.name, s.value, ctx)
      [] s.t = "input_statement" -> input_statement(s.name, ctx)
      [] s.t \in {"variable_declaration", "assignment", "output_statement", "expression"} ->
           VisitSimple(s, LowerExpr(s.e, ctx), ctx)
      [] s.t = "while_statement" ->
           VisitWhile(LowerExpr(s.cond, ctx), LowerStmts(s.body, ctx), ctx)
      [] s.t = "if_statement" ->
           VisitIf(s, LowerExpr(s.cond, ctx), LowerStmts(s.body, ctx), ctx)

\* Compiler.compile: the memory map and constants as comment lines, then the code
symbol_table_comments(ctx) ==
    <<Comment>> \o [i \in 1..Cardinality(DOMAIN ctx.symbols) |-> Comment]
        \o <<EmptyLine, Comment>>
        \o [i \in 1..Cardinality(DOMAIN ctx.defined_constants) |-> Comment]
        \o <<EmptyLine>>

Compiled(r) ==
    [err |-> r.err, ctx |-> r.ctx,
     code |-> IF r.err # "" THEN <<>>
              ELSE symbol_table_comments(r.ctx) \o program_items(r.items)]

compile(prog) == Compiled(LowerStmts(prog, InitCtx))

(***************************************************************************)
(* instruction_set_parser.py: Parser.  Every helper takes the compile-time *)
(* cursor and returns [code, cursor].                                      *)
(***************************************************************************)
Rep(c, n) == [i \in 1..n |-> c]

\* str.replace(a + b, "") for two different characters a, b: occurrences cannot
\* overlap, so every one is removed.  The string is split where no occurrence
\* straddles the cut, which keeps the recursion shallow.
Replace(s, a, b) ==
    LET RECURSIVE R(_)
        R(t) == IF Len(t) < 2 THEN t
                ELSE IF Len(t) = 2 THEN (IF t[1] = a /\ t[2] = b THEN <<>> ELSE t)
                ELSE LET m == Len(t) \div 2
                         cut == IF t[m] = a /\ t[m + 1] = b THEN m + 1 ELSE m
                     IN  R(SubSeq(t, 1, cut)) \o R(SubSeq(t, cut + 1, Len(t)))
    IN  R(s)

\* mutant of the peephole pass: only "<>" is removed
PeepholePassOnlyLeftRight(c) == Replace(c, "<", ">")

\* one pass of the loop body: code.replace("<>", "").replace("><", "")
PeepholePass(c) == Replace(Replace(c, "<", ">"), ">", "<")

RECURSIVE _remove_redundant_instructions(_)
_remove_redundant_instructions(c) ==
    IF PeepholePass(c) = c THEN c ELSE _remove_redundant_instructions(PeepholePass(c))

_move_to(cell, cursor) ==
    [code |-> IF cell > cursor THEN Rep(">", cell - cursor) ELSE Rep("<", cursor - cell),
     cursor |-> cell]

_move_offset(offset, cursor) ==
    [code |-> IF offset > 0 THEN Rep(">", offset) ELSE Rep("<", -offset),
     cursor |-> cursor + offset]

_clear_cell(register, cursor) ==
    LET m == _move_to(register, cursor)
    IN  [code |-> m.code \o <<"[", "-", "]">>, cursor |-> m.cursor]

\* mutant of _copy_value: the value is not moved back from TEMP to the source
_copy_value_destructive(source, destination, cursor) ==
    LET c1 == _clear_cell(TEMP, cursor)
        c2 == _clear_cell(destination, c1.cursor)
        m3 == _move_to(source, c2.cursor)
        o4 == _move_offset(destination - source, m3.cursor)
        o5 == _move_offset(TEMP - destination, o4.cursor)
        o6 == _move_offset(source - TEMP, o5.cursor)
        m7 == _move_to(TEMP, o6.cursor)
    IN  [code |-> c1.code \o c2.code \o m3.code
                    \o <<"[">> \o o4.code \o <<"+">> \o o5.code \o <<"+">> \o o6.code
                    \o <<"-", "]">>
                    \o m7.code,
         cursor |-> m7.cursor]

_copy_value(source, destination, cursor) ==
    LET c1 == _clear_cell(TEMP, cursor)
        c2 == _clear_cell(destination, c1.cursor)
        m3 == _move_to(source, c2.cursor)
        o4 == _move_offset(destination - source, m3.cursor)
        o5 == _move_offset(TEMP - destination, o4.cursor)
        o6 == _move_offset(source - TEMP, o5.cursor)
        m7 == _move_to(TEMP, o6.cursor)
        o8 == _move_offset(source - TEMP, m7.cursor)
        o9 == _move_offset(TEMP - source, o8.cursor)
    IN  [code |-> c1.code \o c2.code \o m3.code
                    \o <<"[">> \o o4.code \o <<"+">> \o o5.code \o <<"+">> \o o6.code
                    \o <<"-", "]">>
                    \o m7.code
                    \o <<"[">> \o o8.code \o <<"+">> \o o9.code \o <<"-", "]">>,
         cursor |-> o9.cursor]

RegisterOf(instruction) ==
    IF instruction \in {"LOAD_A_IMM", "LOAD_A_MEM", "STORE_A", "IN_A", "OUT_A"}
    THEN REG_A ELSE REG_B

_handle_load_immediate(instruction, arg, cursor) ==
    LET m == _move_to(RegisterOf(instruction), cursor)
    IN  [code |-> m.code \o <<"[", "-", "]">> \o Rep("+", arg), cursor |-> m.cursor]

_handle_load_memory(instruction, arg, cursor) ==
    _copy_value(arg + memory_offset, RegisterOf(instruction), cursor)

_handle_store(instruction, arg, cursor) ==
    _copy_value(RegisterOf(instruction), arg + memory_offset, cursor)

_handle_arithmetic(instruction, arg, cursor) ==
    LET m == _move_to(REG_B, cursor)
        o1 == _move_offset(REG_A - REG_B, m.cursor)
        o2 == _move_offset(REG_B - REG_A, o1.cursor)
    IN  [code |-> m.code \o <<"[">> \o o1.code
                    \o <<IF instruction = "ADD" THEN "+" ELSE "-">>
                    \o o2.code \o <<"-", "]">>,
         cursor |-> o2.cursor]

\* mutant of _handle_loop_start: the head is not moved to REG_A first
_handle_loop_start_in_place(instruction, arg, cursor) ==
    [code |-> <<"[">>, cursor |-> cursor]

_handle_loop_start(instruction, arg, cursor) ==
    LET m == _move_to(REG_A, cursor) IN [code |-> m.code \o <<"[">>, cursor |-> m.cursor]

_handle_loop_end(instruction, arg, cursor) ==
    LET m == _move_to(REG_A, cursor) IN [code |-> m.code \o <<"]">>, cursor |-> m.cursor]

_handle_input(instruction, arg, cursor) ==
    LET m == _move_to(RegisterOf(instruction), cursor)
    IN  [code |-> m.code \o <<",">>, cursor |-> m.cursor]

_handle_output(instruction, arg, cursor) ==
    LET m == _move_to(RegisterOf(instruction), cursor)
    IN  [code |-> m.code \o <<".">>, cursor |-> m.cursor]

Instructions == {"LOAD_A_IMM", "LOAD_A_MEM", "LOAD_B_IMM", "LOAD_B_MEM", "STORE_A", "STORE_B",
                 "ADD", "SUB", "LOOP_START", "LOOP_END", "IN_A", "IN_B", "OUT_A", "OUT_B"}

instruction_handlers(instruction, arg, cursor) ==
    CASE instruction \in {"LOAD_A_IMM", "LOAD_B_IMM"} -> _handle_load_immediate(instruction, arg, cursor)
      [] instruction \in {"LOAD_A_MEM", "LOAD_B_MEM"} -> _handle_load_memory(instruction, arg, cursor)
      [] instruction \in {"STORE_A", "STORE_B"} -> _handle_store(instruction, arg, cursor)
      [] instruction \in {"ADD", "SUB"} -> _handle_arithmetic(instruction, arg, cursor)
      [] instruction = "LOOP_START" -> _handle_loop_start(instruction, arg, cursor)
      [] instruction = "LOOP_END" -> _handle_loop_end(instruction, arg, cursor)
      [] instruction \in {"IN_A", "IN_B"} -> _handle_input(instruction, arg, cursor)
      [] instruction \in {"OUT_A", "OUT_B"} -> _handle_output(instruction, arg, cursor)

\* The loop of parse over the rows: empty and comment rows are skipped, every
\* other row appends its handler's code, the debug mark and a newline.
\* Result: [err, code, cursors (the cursor after each emitted row), cursor].
RECURSIVE ParseRows(_, _, _)

\* code += result + self.debug + "\n", for the handler's result h
Emitted(h, debug) ==
    [code |-> IF h.code = <<>> THEN <<>> ELSE h.code \o debug \o <<"\n">>,
     cursors |-> <<h.cursor>>, cursor |-> h.cursor, err |-> ""]

\* the loop over rows, split in two: l is the result of the first rows
Joined(l, r) ==
    [code |-> l.code \o r.code, cursors |-> l.cursors \o r.cursors,
     cursor |-> r.cursor, err |-> r.err]
ParseRest(l, rest, debug) ==
    IF l.err # "" THEN l ELSE Joined(l, ParseRows(rest, l.cursor, debug))

ParseRows(rows, cursor, debug) ==
    IF rows = <<>> THEN [code |-> <<>>, cursors |-> <<>>, cursor |-> cursor, err |-> ""]
    ELSE IF Len(rows) = 1
    THEN IF rows[1].op \in {"", "#"}
         THEN [code |-> <<>>, cursors |-> <<>>, cursor |-> cursor, err |-> ""]
         ELSE IF rows[1].op \notin Instructions
         THEN [code |-> <<>>, cursors |-> <<>>, cursor |-> cursor,
               err |-> "Unknown instruction"]
         ELSE Emitted(instruction_handlers(rows[1].op, rows[1].arg, cursor), debug)
    ELSE ParseRest(ParseRows(SubSeq(rows, 1, Len(rows) \div 2), cursor, debug),
                   SubSeq(rows, Len(rows) \div 2 + 1, Len(rows)), debug)

DebugMark(debug) == IF debug THEN <<"#">> ELSE <<>>

\* parse on a Parser whose cursor field is cursor
Parsed(r) ==
    [err |-> r.err, raw |-> r.code, code |-> _remove_redundant_instructions(r.code),
     cursors |-> r.cursors, cursor |-> r.cursor]
parse(instructions, cursor, debug) == Parsed(ParseRows(instructions, cursor, DebugMark(debug)))

(***************************************************************************)
(* The grammar of lark_parser.py as abstract syntax                        *)
(***************************************************************************)
Num(n) == [t |-> "number", v |-> n]
Chr(n) == [t |-> "character", v |-> n]
Var(name) == [t |-> "variable", name |-> name]
Par(e) == [t |-> "parenthesized", e |-> e]
Bin(o, l, r) == [t |-> o, l |-> l, r |-> r]
Define(name, value) == [t |-> "define_directive", name |-> name, value |-> value]
Decl(name, e) == [t |-> "variable_declaration", name |-> name, e |-> e]
Assign(name, e) == [t |-> "assignment", name |-> name, e |-> e]
InputStmt(name) == [t |-> "input_statement", name |-> name]
Output(e) == [t |-> "output_statement", e |-> e]
ExprStmt(e) == [t |-> "expression", e |-> e]
While(c, body) == [t |-> "while_statement", cond |-> c, body |-> body]
If(c, body) == [t |-> "if_statement", cond |-> c, body |-> body, else_body |-> <<>>]
IfElse(c, body, else_body) ==
    [t |-> "if_statement", cond |-> c, body |-> body, else_body |-> else_body]

(***************************************************************************)
(* A compiled unit: the IR without its comment lines, the BF text that     *)
(* parse returns for it on a fresh Parser, and the jump tables of both.    *)
(***************************************************************************)
IsInstruction(row) == row.op \notin {"", "#"}

\* the nesting depth after each position of s (open/close are the two brackets)
RECURSIVE Depths(_, _, _)
Depths(s, open, close) ==
    IF Len(s) = 0 THEN <<>>
    ELSE IF Len(s) = 1
    THEN <<IF s[1] = open THEN 1 ELSE IF s[1] = close THEN -1 ELSE 0>>
    ELSE LET m == Len(s) \div 2
             l == Depths(SubSeq(s, 1, m), open, close)
             r == Depths(SubSeq(s, m + 1, Len(s)), open, close)
         IN  l \o [i \in 1..Len(r) |-> r[i] + l[Len(l)]]

Least(S) == CHOOSE j \in S : \A k \in S : j <= k
Greatest(S) == CHOOSE j \in S : \A k \in S : j >= k

\* the partner of every bracket of s: 0 at the other positions and for a
\* bracket without partner
MatchTable(s, open, close) ==
    LET d == Depths(s, open, close)
        after(i) == {j \in (i + 1)..Len(s) : s[j] = close /\ d[j] = d[i] - 1}
        before(i) == {j \in 1..(i - 1) : s[j] = open /\ d[j] = d[i] + 1}
    IN  <<>> \o [i \in 1..Len(s) |->
                   IF s[i] = open THEN (IF after(i) = {} THEN 0 ELSE Least(after(i)))
                   ELSE IF s[i] = close THEN (IF before(i) = {} THEN 0 ELSE Greatest(before(i)))
                   ELSE 0]

Ops(ir) == [i \in 1..Len(ir) |-> ir[i].op]

\* the number of the line every character of the BF text is on: parse ends
\* the BF of each instruction with a newline
LineNumbers(s) ==
    LET d == Depths(s, "\n", "")
    IN  <<>> \o [i \in 1..Len(s) |-> d[i] + (IF s[i] = "\n" THEN 0 ELSE 1)]

\* compile_with_includes alone: the unit has no BF text
Unit(c) ==
    LET ir == SelectSeq(c.code, IsInstruction)
    IN  [err |-> c.err, ctx |-> c.ctx, rows |-> c.code, ir |-> ir,
         irMatch |-> MatchTable(Ops(ir), "LOOP_START", "LOOP_END"),
         raw |-> <<>>, bf |-> <<>>, bfMatch |-> <<>>, cursors |-> <<>>, lineOf |-> <<>>]
Lower(prog) == Unit(compile(prog))

\* main(): compile_with_includes, then Parser(debug).parse
WithBF(u, b) ==
    [u EXCEPT !.err = b.err, !.raw = b.raw, !.bf = b.code,
              !.bfMatch = MatchTable(b.code, "[", "]"),
              !.cursors = b.cursors, !.lineOf = LineNumbers(b.code)]
Emit(u, debug) == IF u.err # "" THEN u ELSE WithBF(u, parse(u.rows, 0, debug))
Build(prog, debug) == Emit(Lower(prog), debug)

(***************************************************************************)
(* Bounds of the model                                                     *)
(***************************************************************************)
MaxByte == 2        \* input bytes are 0..MaxByte
MaxIO == 4          \* a run is followed until its I/O trace has MaxIO events
MaxLen == 5         \* peephole inputs have at most MaxLen characters
MaxAllocs == 4      \* symbol-table histories have at most MaxAllocs allocations
LoopFuel == 6       \* the reference semantics follows a while loop for LoopFuel rounds
MaxJumps == 6       \* irJumps stops counting at MaxJumps

InEvent(v) == [k |-> "in", v |-> v]
OutEvent(v) == [k |-> "out", v |-> v]

IsPrefix(s, t) == Len(s) <= Len(t) /\ SubSeq(t, 1, Len(s)) = s

(***************************************************************************)
(* The IR machine of the instruction table: two 8-bit registers, a byte    *)
(* memory, loops gated on REG_A.  irJumps counts the LOOP_ENDs that jumped *)
(* back.                                                                   *)
(***************************************************************************)
IRHalted(u) == irpc > Len(u.ir)

IRExec(u, next) ==
    LET ins == u.ir[irpc]
        op == ins.op
    IN  /\ ~IRHalted(u)
        /\ Len(irIO) < MaxIO
        /\ op \in {"IN_A", "IN_B"} => irIn < Len(input)
        /\ regA' = CASE op = "LOAD_A_IMM" -> ins.arg % CellMod
                     [] op = "LOAD_A_MEM" -> mem[ins.arg]
                     [] op = "IN_A" -> input[irIn + 1]
                     [] op = "ADD" -> (regA + regB) % CellMod
                     [] op = "SUB" -> (regA - regB) % CellMod
                     [] OTHER -> regA
        /\ regB' = CASE op = "LOAD_B_IMM" -> ins.arg % CellMod
                     [] op = "LOAD_B_MEM" -> mem[ins.arg]
                     [] op = "IN_B" -> input[irIn + 1]
                     [] op \in {"ADD", "SUB"} -> 0
                     [] OTHER -> regB
        /\ mem' = CASE op = "STORE_A" -> [mem EXCEPT ![ins.arg] = regA]
                    [] op = "STORE_B" -> [mem EXCEPT ![ins.arg] = regB]
                    [] OTHER -> mem
        /\ irIn' = IF op \in {"IN_A", "IN_B"} THEN irIn + 1 ELSE irIn
        /\ irIO' = CASE op \in {"IN_A", "IN_B"} -> Append(irIO, InEvent(input[irIn + 1]))
                     [] op = "OUT_A" -> Append(irIO, OutEvent(regA))
                     [] op = "OUT_B" -> Append(irIO, OutEvent(regB))
                     [] OTHER -> irIO
        /\ irpc' = CASE op = "LOOP_START" /\ regA = 0 -> u.irMatch[irpc] + 1
                     [] op = "LOOP_END" /\ regA # 0 -> u.irMatch[irpc] + 1
                     [] OTHER -> irpc + 1
        /\ irJumps' = IF op = "LOOP_END" /\ regA # 0 /\ irJumps < MaxJumps
                      THEN irJumps + 1 ELSE irJumps
        /\ turn' = next

(***************************************************************************)
(* The BF machine: a tape of tapeSize cells that wrap at 256.  A move off  *)
(* either end of the tape is not defined by the language: interpreters     *)
(* either wrap the head around (wrap) or stop with an error.               *)
(***************************************************************************)
BFHalted(u) == bfpc > Len(u.bf)

BFExec(u) ==
    LET c == u.bf[bfpc]
        target == CASE c = ">" -> head + 1 [] c = "<" -> head - 1 [] OTHER -> head
        off == target < 0 \/ target >= tapeSize
    IN  /\ ~BFHalted(u)
        /\ c = "," => bfIn < Len(input)
        /\ head' = IF off THEN target % tapeSize ELSE target
        /\ tape' = CASE c = "+" -> [tape EXCEPT ![head] = (tape[head] + 1) % CellMod]
                     [] c = "-" -> [tape EXCEPT ![head] = (tape[head] - 1) % CellMod]
                     [] c = "," -> [tape EXCEPT ![head] = input[bfIn + 1]]
                     [] OTHER -> tape
        /\ bfIn' = IF c = "," THEN bfIn + 1 ELSE bfIn
        /\ bfIO' = CASE c = "," -> Append(bfIO, InEvent(input[bfIn + 1]))
                     [] c = "." -> Append(bfIO, OutEvent(tape[head]))
                     [] OTHER -> bfIO
        /\ bfpc' = CASE c = "[" /\ tape[head] = 0 -> u.bfMatch[bfpc] + 1
                     [] c = "]" /\ tape[head] # 0 -> u.bfMatch[bfpc] + 1
                     [] OTHER -> bfpc + 1
        /\ turn' = CASE off /\ ~wrap -> "fault"
                     [] c = "\n" /\ turn = "bf" -> "ir"
                     [] OTHER -> turn

(***************************************************************************)
(* The meaning of a BFS program, for the statements about what lowered     *)
(* code computes: expressions are evaluated mod 256 over the variables,    *)
(* an if runs one branch once, a while runs its body while the condition   *)
(* is non-zero.  A state is [env, defs, pos, io, loops, cut]: loops counts *)
(* the rounds of while loops after the first, cut says the run was left    *)
(* (input exhausted, MaxIO events, LoopFuel rounds).                       *)
(***************************************************************************)
RECURSIVE Eval(_, _)
Eval(e, st) ==
    CASE e.t \in {"number", "character"} -> e.v
      [] e.t = "variable" -> IF e.name \in DOMAIN st.defs THEN st.defs[e.name]
                             ELSE IF e.name \in DOMAIN st.env THEN st.env[e.name] ELSE 0
      [] e.t = "parenthesized" -> Eval(e.e, st)
      [] e.t = "add" -> (Eval(e.l, st) + Eval(e.r, st)) % CellMod
      [] e.t = "subtract" -> (Eval(e.l, st) - Eval(e.r, st)) % CellMod
      [] e.t = "equal" -> IF Eval(e.l, st) = Eval(e.r, st) THEN 1 ELSE 0
      [] e.t = "not_equal" -> IF Eval(e.l, st) = Eval(e.r, st) THEN 0 ELSE 1

Bind(f, name, v) == [n \in DOMAIN f \cup {name} |-> IF n = name THEN v ELSE f[n]]

RECURSIVE Exec(_, _, _)
RECURSIVE ExecAll(_, _, _)
RECURSIVE ExecWhile(_, _, _, _)
ExecAll(stmts, st, inp) ==
    IF stmts = <<>> \/ st.cut THEN st
    ELSE ExecAll(Tail(stmts), Exec(Head(stmts), st, inp), inp)

ExecWhile(s, st, inp, fuel) ==
    IF st.cut \/ Eval(s.cond, st) = 0 THEN st
    ELSE IF fuel = 0 THEN [st EXCEPT !.cut = TRUE]
    ELSE LET b == ExecAll(s.body, st, inp)
         IN  IF b.cut \/ Eval(s.cond, b) = 0 THEN b
             ELSE ExecWhile(s, [b EXCEPT !.loops = b.loops + 1], inp, fuel - 1)

Exec(s, st, inp) ==
    CASE s.t = "define_directive" -> [st EXCEPT !.defs = Bind(st.defs, s.name, s.value.v)]
      [] s.t = "variable_declaration" -> [st EXCEPT !.env = Bind(st.env, s.name, Eval(s.e, st))]
      [] s.t = "assignment" -> [st EXCEPT !.env = Bind(st.env, s.name, Eval(s.e, st))]
      [] s.t = "expression" -> st
      [] s.t = "input_statement" ->
           IF st.pos >= Len(inp) \/ Len(st.io) >= MaxIO THEN [st EXCEPT !.cut = TRUE]
           ELSE [st EXCEPT !.env = Bind(st.env, s.name, inp[st.pos + 1]),
                           !.pos = st.pos + 1,
                           !.io = Append(st.io, InEvent(inp[st.pos + 1]))]
      [] s.t = "output_statement" ->
           IF Len(st.io) >= MaxIO THEN [st EXCEPT !.cut = TRUE]
           ELSE [st EXCEPT !.io = Append(st.io, OutEvent(Eval(s.e, st)))]
      [] s.t = "while_statement" -> ExecWhile(s, st, inp, LoopFuel)
      [] s.t = "if_statement" ->
           IF Eval(s.cond, st) # 0 THEN ExecAll(s.body, st, inp)
           ELSE ExecAll(s.else_body, st, inp)

Meaning(prog, inp) ==
    ExecAll(prog, [env |-> EmptyMap, defs |-> [n \in {"true", "false"} |-> IF n = "true" THEN 1 ELSE 0],
                   pos |-> 0, io |-> <<>>, loops |-> 0, cut |-> FALSE], inp)

(***************************************************************************)
(* Compilation units of the runs                                           *)
(***************************************************************************)
\* var x = 2; output(x);
PSimple == <<Decl("x", Num(2)), Output(Var("x"))>>
\* var x = 1; var y = 2; output(x + y);
PSum == <<Decl("x", Num(1)), Decl("y", Num(2)), Output(Bin("add", Var("x"), Var("y")))>>
\* var i = 0; while (2 - i) { output(1 + i); i = i + 1; }
PCount == <<Decl("i", Num(0)),
            While(Bin("subtract", Num(2), Var("i")),
                  <<Output(Bin("add", Num(1), Var("i"))),
                    Assign("i", Bin("add", Var("i"), Num(1)))>>)>>
\* var c = 0; input(c); if (c == 1) { output(1); } else { output(2); }
PAnswer == <<Decl("c", Num(0)), InputStmt("c"),
             IfElse(Bin("equal", Var("c"), Num(1)), <<Output(Num(1))>>, <<Output(Num(2))>>)>>
\* #define MAX 2  var n = MAX; while (n) { output(n); n = n - 1; }
PDefine == <<Define("MAX", IntConst(2)), Decl("n", Var("MAX")),
             While(Var("n"), <<Output(Var("n")), Assign("n", Bin("subtract", Var("n"), Num(1)))>>)>>
\* var x = 0; input(x); if (x) { x = 0; } output(x - 1);
PGuard == <<Decl("x", Num(0)), InputStmt("x"), If(Var("x"), <<Assign("x", Num(0))>>),
            Output(Bin("subtract", Var("x"), Num(1)))>>
\* var x = 0; var x = 1; input(x);
\* while (x) { if (x != 1) { output(x); } else { output(0); } x = x - 1; }
PLoopIf == <<Decl("x", Num(0)), Decl("x", Num(1)), InputStmt("x"),
             While(Var("x"),
                   <<IfElse(Bin("not_equal", Var("x"), Num(1)),
                            <<Output(Var("x"))>>, <<Output(Num(0))>>),
                     Assign("x", Bin("subtract", Var("x"), Num(1)))>>)>>
\* output(1 == 1);
PNoSymbols == <<Output(Bin("equal", Num(1), Num(1)))>>

RunPrograms == {PSimple, PSum, PCount, PAnswer, PDefine, PGuard, PLoopIf, PNoSymbols}

\* var x = 0; var y = 0; input(x); input(y); output(e);
ExprProgram(e) ==
    <<Decl("x", Num(0)), Decl("y", Num(0)), InputStmt("x"), InputStmt("y"), Output(e)>>

Leaves == {Var("x"), Var("y"), Num(1)}
Arith1 == {Bin(o, l, r) : o \in {"add", "subtract"}, l \in Leaves, r \in Leaves}
Arith2 == {Bin(o, l, r) : o \in {"add", "subtract"}, l \in Leaves \cup Arith1,
                          r \in Leaves \cup {Par(e) : e \in Arith1}}

Vars2 == {Var("x"), Var("y")}
Operand1 == {Bin(o, l, r) : o \in {"add", "subtract", "equal", "not_equal"},
                            l \in Vars2, r \in Vars2}
Compare2 == {Bin(o, l, r) : o \in {"equal", "not_equal"}, l \in Leaves \cup Operand1,
                            r \in Leaves \cup {Par(e) : e \in Operand1}}

ExprPrograms == {ExprProgram(e) : e \in Arith2 \cup Compare2}

\* var x = 0; input(x); <statement>  output(9);
ControlProgram(stmts) == <<Decl("x", Num(0)), InputStmt("x")>> \o stmts \o <<Output(Num(9))>>

Conds == {Var("x"), Num(1), Num(0), Bin("subtract", Var("x"), Num(1)),
          Bin("equal", Var("x"), Num(1)), Bin("not_equal", Var("x"), Var("x"))}
ThenBodies == {<<Output(Num(1))>>, <<Output(Var("x"))>>,
               <<Assign("x", Num(0)), Output(Num(1))>>,
               <<Assign("x", Bin("add", Var("x"), Num(1)))>>}
ElseBodies == {<<Output(Num(2))>>, <<Assign("x", Num(1)), Output(Var("x"))>>}

IfElses == {IfElse(c, b, e) : c \in Conds, b \in ThenBodies, e \in ElseBodies}
InnerIfElses == {IfElse(c, <<Output(Num(3))>>, <<Output(Num(4))>>) :
                    c \in {Var("x"), Bin("equal", Var("x"), Num(2))}}
NestedIfElses ==
    {IfElse(c, <<i>>, <<Output(Num(2))>>) : c \in {Var("x"), Num(0)}, i \in InnerIfElses}
      \cup {IfElse(c, <<Output(Num(1))>>, <<i>>) : c \in {Var("x"), Num(0)}, i \in InnerIfElses}
      \cup {IfElse(c, <<i>>, <<j>>) : c \in {Bin("subtract", Var("x"), Num(1))},
                                     i \in InnerIfElses, j \in InnerIfElses}
LoopedIfElses ==
    {While(Var("x"), <<i, Assign("x", Bin("subtract", Var("x"), Num(1)))>>) :
        i \in {IfElse(c, <<Output(Num(1))>>, <<Output(Num(2))>>) :
                  c \in {Bin("subtract", Var("x"), Num(1)), Bin("equal", Var("x"), Num(1))}}
              \cup {IfElse(Bin("subtract", Var("x"), Num(1)), <<j>>, <<Output(Num(2))>>) :
                       j \in InnerIfElses}}

IfElsePrograms == {ControlProgram(<<s>>) : s \in IfElses \cup NestedIfElses \cup LoopedIfElses}

\* an if without else, its body one statement
PlainIfs == {If(c, b) : c \in Conds,
                        b \in {<<Output(Num(1))>>, <<Output(Var("x"))>>, <<Assign("x", Num(0))>>,
                               <<Assign("x", Num(5))>>, <<Output(Num(0))>>}}
PlainIfPrograms == {ControlProgram(<<s>>) : s \in PlainIfs}

\* an if without else, its body two or three statements
PlainBlockIfs == {If(c, b) : c \in {Var("x"), Num(0), Num(1)},
                             b \in {<<Output(Num(1)), Output(Num(2))>>,
                                    <<Assign("x", Num(0)), Output(Num(1)), Output(Num(2))>>}}
PlainBlockIfPrograms == {ControlProgram(<<s>>) : s \in PlainBlockIfs}

ControlPrograms ==
    IfElsePrograms \cup PlainIfPrograms \cup PlainBlockIfPrograms \cup RunPrograms

NumInputs(u) == Cardinality({i \in 1..Len(u.ir) : u.ir[i].op \in {"IN_A", "IN_B"}})
InputsFor(u) == [1..NumInputs(u) -> 0..MaxByte]

\* the tape the statement of the equivalence asks for, and the tape the code needs
ClaimedTape(u) == Cardinality(DOMAIN u.ctx.symbols) + memory_offset
NeededTape(u) == u.ctx.next_address + memory_offset
AnyTape(u) == ClaimedTape(u)..(NeededTape(u) + 1)
FullTape(u) == {NeededTape(u)}

SymIdle == symbols = EmptyMap /\ next_address = InitNextAddress /\ declared = <<>>
PeepIdle == code = <<>> /\ original = <<>> /\ peep = "done" /\ self_cursor = 0 /\ self_debug = FALSE

\* both machines at their start on the unit; small: the runs include tapes
\* down to the stated bound
RunStart(small) ==
    /\ tapeSize \in IF small THEN AnyTape(unit) ELSE FullTape(unit)
    /\ wrap \in IF tapeSize < NeededTape(unit) THEN BOOLEAN ELSE {FALSE}
    /\ turn = "ir"
    /\ irpc = 1 /\ regA = 0 /\ regB = 0 /\ irIn = 0 /\ irIO = <<>> /\ irJumps = 0
    /\ mem = [a \in 0..(unit.ctx.next_address - 1) |-> 0]
    /\ bfpc = 1 /\ head = 0 /\ bfIn = 0 /\ bfIO = <<>>
    /\ tape = [c \in 0..(tapeSize - 1) |-> 0]

\* emit: the unit is compiled to BF text (main) or lowered only
RunInit(progs, emit, small) ==
    /\ program \in progs
    /\ unit = IF emit THEN Build(program, FALSE) ELSE Lower(program)
    /\ unit.err = ""
    /\ input \in InputsFor(unit)
    /\ RunStart(small)

bfVars == <<bfpc, head, tape, bfIn, bfIO>>
irVars == <<irpc, regA, regB, mem, irIn, irIO, irJumps>>
envVars == <<program, unit, input, tapeSize, wrap>>

(***************************************************************************)
(* Spec: the IR machine and the BF machine run the same unit on the same   *)
(* input, one IR instruction and then the BF line emitted for it.  After a *)
(* BF fault the IR machine runs on alone.                                  *)
(***************************************************************************)
Init == SymIdle /\ PeepIdle /\ RunInit(RunPrograms, TRUE, TRUE)

IRStep ==
    /\ turn \in {"ir", "fault"}
    /\ IRExec(unit, IF turn = "ir" THEN "bf" ELSE "fault")
    /\ UNCHANGED <<symVars, peepVars, envVars, bfVars>>

BFStep ==
    /\ turn = "bf"
    /\ BFExec(unit)
    /\ UNCHANGED <<symVars, peepVars, envVars, irVars>>

Next == IRStep \/ BFStep

Spec == Init /\ [][Next]_vars

(***************************************************************************)
(* SpecExpr, SpecControl: the IR machine alone runs the lowered code       *)
(***************************************************************************)
IRRun ==
    /\ turn = "ir"
    /\ IRExec(unit, "ir")
    /\ UNCHANGED <<symVars, peepVars, envVars, bfVars>>

InitExpr == SymIdle /\ PeepIdle /\ RunInit(ExprPrograms, FALSE, FALSE)
SpecExpr == InitExpr /\ [][IRRun]_vars

InitControl == SymIdle /\ PeepIdle /\ RunInit(ControlPrograms, TRUE, FALSE)
\* the IR machine does not stop while it has an instruction to run
SpecControl == InitControl /\ [][IRRun]_vars /\ WF_vars(IRRun)

(***************************************************************************)
(* The symbol table alone: var declarations and if/else lowerings, in any  *)
(* order, on one SymbolTable.  declared is the history of add_symbol calls.*)
(***************************************************************************)
VarNames == {"x", "y", "z"}

RunIdle ==
    /\ program = <<>> /\ unit = Lower(<<>>) /\ input = <<>> /\ tapeSize = 0
    /\ wrap = FALSE /\ turn = "idle"
    /\ irpc = 1 /\ regA = 0 /\ regB = 0 /\ irIn = 0 /\ irIO = <<>> /\ irJumps = 0
    /\ mem = <<>> /\ bfpc = 1 /\ head = 0 /\ bfIn = 0 /\ bfIO = <<>> /\ tape = <<>>

Table == [symbols |-> symbols, next_address |-> next_address]

\* variable_declaration: self.symbol_table.add_symbol(var_name)
VariableDeclaration(var_name) ==
    /\ Len(declared) < MaxAllocs
    /\ symbols' = add_symbol(Table, var_name).symbols
    /\ next_address' = add_symbol(Table, var_name).next_address
    /\ declared' = Append(declared, var_name)
    /\ UNCHANGED <<peepVars, runVars>>

\* if_statement with an else clause: add_symbol of the first free go_else_i
IfElseLowering ==
    /\ Len(declared) < MaxAllocs
    /\ symbols' = add_symbol(Table, go_else_symbol(Table)).symbols
    /\ next_address' = add_symbol(Table, go_else_symbol(Table)).next_address
    /\ declared' = Append(declared, go_else_symbol(Table))
    /\ UNCHANGED <<peepVars, runVars>>

InitSym == SymIdle /\ PeepIdle /\ RunIdle
NextSym == (\E var_name \in VarNames : VariableDeclaration(var_name)) \/ IfElseLowering
SpecSym == InitSym /\ [][NextSym]_vars

(***************************************************************************)
(* The peephole pass alone, one action per iteration of its while loop,    *)
(* on every string of at most MaxLen characters.                           *)
(***************************************************************************)
PeepChars == {"<", ">", "+"}
PeepInputs == UNION {[1..n -> PeepChars] : n \in 0..MaxLen}

\* new_code = ...; if new_code == code: break; code = new_code
PeepLoop ==
    /\ peep = "loop"
    /\ IF PeepholePass(code) = code
       THEN peep' = "done" /\ code' = code
       ELSE peep' = "loop" /\ code' = PeepholePass(code)
    /\ UNCHANGED <<original, self_cursor, self_debug, symVars, runVars>>

InitPeep ==
    /\ SymIdle /\ RunIdle
    /\ original \in PeepInputs /\ code = original /\ peep = "loop"
    /\ self_cursor = 0 /\ self_debug = FALSE

\* the loop is not interrupted: an enabled iteration is eventually run
SpecPeep == InitPeep /\ [][PeepLoop]_vars /\ WF_vars(PeepLoop)

(***************************************************************************)
(* Claims                                                                  *)
(***************************************************************************)
Count(s, c) == Len(SelectSeq(s, LAMBDA x : x = c))
HasPair(s, a, b) == \E i \in 1..(Len(s) - 1) : s[i] = a /\ s[i + 1] = b

\* what the claim says of the string the loop returns for the input original
PeepResultOk ==
    /\ code = _remove_redundant_instructions(original)
    /\ ~HasPair(code, "<", ">") /\ ~HasPair(code, ">", "<")
    /\ _remove_redundant_instructions(code) = code
    /\ SelectSeq(code, LAMBDA x : x \notin {"<", ">"})
         = SelectSeq(original, LAMBDA x : x \notin {"<", ">"})
    /\ Count(original, "<") - Count(code, "<") = Count(original, ">") - Count(code, ">")
    /\ Count(code, "<") <= Count(original, "<")

\* C10: for every input string the peephole loop terminates, and the string it
\* returns contains neither "<>" nor "><", is returned unchanged by a second
\* application, and differs from the input only by "<" and ">" characters
\* removed in equal numbers.
C10_PeepholeNormalForm == [](peep = "done" => PeepResultOk) /\ <>(peep = "done")

\* a string that needed more than one pass has been brought to normal form
C10_Witness == peep = "done" /\ code # original /\ code # PeepholePass(original)

\* C8: no two identifiers share an address, and a variable declared before
\* another one has the smaller address.
C8_DistinctAndOrdered ==
    /\ \A a, b \in DOMAIN symbols : a # b => get_address(Table, a) # get_address(Table, b)
    /\ \A i, j \in 1..Len(declared) :
          (i < j /\ declared[i] \in VarNames /\ declared[j] \in VarNames
                 /\ declared[i] # declared[j])
          => get_address(Table, declared[i]) < get_address(Table, declared[j])

\* C9: an identifier that has an address keeps it through every later
\* declaration and if/else lowering.
C9_AddressStable ==
    [][\A n \in DOMAIN symbols :
          get_address_defined(Table, n)' /\ get_address(Table, n)' = get_address(Table, n)]_vars

\* the IR machine is about to run the instruction that follows the IR of the
\* expression e of output(e), the last statement of an ExprProgram
ExprDone == ~IRHalted(unit) /\ unit.ir[irpc].op = "OUT_A"
\* the value of that expression over the variable values at that point
ExprValue == Eval(program[5].e, Meaning(SubSeq(program, 1, 4), input))

\* C2: the IR of an expression built from literals, variables, "+", "-" and
\* parentheses leaves the value of the expression, mod 256, in REG_A.
C2_ArithmeticValue ==
    (program[5].e \in Arith2 /\ ExprDone) => regA = ExprValue

\* C3: the IR of "left == right" and of "left != right" leaves 1 or 0 in REG_A,
\* according to whether the operand values are equal, whatever the operands.
C3_ComparisonValue ==
    (program[5].e \in Compare2 /\ ExprDone) => regA \in {0, 1} /\ regA = ExprValue

\* what the program means on the input of the run
Expected == Meaning(program, input)

\* the IR machine has stopped: at the end of the code, or at the bounds of the run
IRStopped == IRHalted(unit) \/ ~ENABLED IRRun

\* the run so far is a run of the program's meaning: the same I/O events, and
\* no LOOP_END has jumped back but those of the program's while loops
FollowsMeaning ==
    /\ IsPrefix(irIO, Expected.io)
    /\ irJumps <= Expected.loops
    /\ (IRHalted(unit) /\ ~Expected.cut) =>
          /\ irIO = Expected.io
          /\ irJumps = Expected.loops
          /\ \A n \in DOMAIN Expected.env :
                mem[get_address(unit.ctx, n)] = Expected.env[n]

\* C4: an if with an else clause runs the then-body once when the condition is
\* non-zero and the else-body once when it is zero, and both guard loops are
\* left after one round; also when if/else statements are nested and when one
\* is run again by a while loop.
C4_IfElseRunsOneBranchOnce ==
    /\ [](program \in IfElsePrograms => FollowsMeaning)
    /\ <>(program \in IfElsePrograms => IRStopped)

\* a while loop has run an if/else twice, once through each branch
C4_Witness ==
    /\ program \in IfElsePrograms /\ IRHalted(unit) /\ irJumps >= 1
    /\ \E i, j \in 1..Len(irIO) : irIO[i] = OutEvent(1) /\ irIO[j] = OutEvent(2)

\* C5: the code of an if without else ends its loop with LOAD_A_IMM 0, so the
\* then-body runs once when the condition is non-zero and not at all when it
\* is zero, whatever the body leaves in REG_A.
C5_PlainIfRunsBodyOnce ==
    program \in PlainIfPrograms => FollowsMeaning

Balanced(s, open, close) ==
    LET d == Depths(s, open, close)
    IN  (\A i \in 1..Len(s) : d[i] >= 0) /\ (s = <<>> \/ d[Len(s)] = 0)

\* the run has not started: the state holds what the compiler returned
AtStart == irpc = 1 /\ irIO = <<>> /\ irJumps = 0 /\ regA = 0 /\ regB = 0

\* C7: in the IR of a program every LOOP_START is closed by a later LOOP_END,
\* and the BF text parse returns for it is bracket-balanced before and after
\* the peephole pass.
C7_LoopsBalanced ==
    AtStart =>
        /\ Balanced(Ops(unit.ir), "LOOP_START", "LOOP_END")
        /\ Balanced(unit.raw, "[", "]")
        /\ Balanced(unit.bf, "[", "]")
        /\ unit.bf = _remove_redundant_instructions(unit.raw)

\* the code of a while loop around nested if/else statements
C7_Witness ==
    /\ AtStart
    /\ \E s \in LoopedIfElses : program = ControlProgram(<<s>>)
    /\ Cardinality({i \in 1..Len(unit.ir) : unit.ir[i].op = "LOOP_START"}) >= 5
    /\ Cardinality({i \in 1..Len(unit.bf) : unit.bf[i] = "["})
          > Cardinality({i \in 1..Len(unit.ir) : unit.ir[i].op = "LOOP_START"})

\* the BF machine has run the BF text of every instruction the IR machine has run
InSync == turn = "ir"

\* the BF run reads and writes what the IR run reads and writes, and ends when it ends
TraceRefines ==
    /\ turn # "fault"
    /\ IsPrefix(bfIO, irIO)
    /\ InSync => /\ bfIO = irIO
                 /\ bfIn = irIn
                 /\ IRHalted(unit) <=> BFHalted(unit)

\* C1 as stated: on a tape of at least symbol_table_size + 3 cells the BF text
\* of a program reads and writes the same sequence of bytes as its IR.
C1_TraceEqualOnClaimedTape ==
    tapeSize >= ClaimedTape(unit) => TraceRefines

\* C1, amended: on a tape of at least next_address + 3 cells (the two scratch
\* addresses 0 and 1 and every allocated address, each shifted by the three
\* register cells) the BF text of a program reads and writes the same sequence
\* of bytes as its IR, for every input.
C1_TraceEqualOnNeededTape ==
    tapeSize >= NeededTape(unit) => TraceRefines

\* both machines have finished a program that read input, looped and wrote
C1_Witness ==
    /\ tapeSize >= NeededTape(unit) /\ InSync
    /\ IRHalted(unit) /\ BFHalted(unit)
    /\ irJumps >= 1 /\ irIn >= 1 /\ Len(bfIO) >= 3

\* C6: after the BF text of an IR instruction has run, the head of the BF
\* machine is on the cell the backend's cursor had after emitting that
\* instruction, whether a loop was entered, skipped or repeated, and the
\* cursor is never negative.
C6_CursorIsHead ==
    tapeSize >= NeededTape(unit) =>
        /\ \A i \in 1..Len(unit.cursors) : unit.cursors[i] >= 0
        /\ Len(unit.cursors) = Len(unit.ir)
        /\ (InSync /\ bfpc > 1) =>
              /\ unit.lineOf[bfpc - 1] = irpc - 1
              /\ head = unit.cursors[unit.lineOf[bfpc - 1]]

\* a loop has been repeated and then left, with the cursor off REG_A before it
C6_Witness ==
    /\ tapeSize >= NeededTape(unit) /\ InSync /\ irpc > 2 /\ irJumps >= 1
    /\ unit.ir[irpc - 1].op = "LOOP_END" /\ regA = 0
    /\ unit.cursors[irpc - 2] # unit.cursors[irpc - 1]

(***************************************************************************)
(* The transformer alone: one CompilerTransformer visits statements one    *)
(* after the other.  program is the statement visited last, unit what its  *)
(* visit returned; an exception ends the compilation.                      *)
(***************************************************************************)
MaxAddress == 257   \* statements are visited while next_address <= MaxAddress

VisitExprs == {Num(0), Num(255), Num(256), Chr(65), Var("BIG"), Var("x"),
               Bin("add", Var("x"), Num(255)), Bin("subtract", Num(256), Var("x")),
               Bin("add", Num(1), Var("BIG")), Bin("equal", Var("x"), Num(256))}
VisitStatements == {Decl("x", e) : e \in VisitExprs}
                     \cup {Define("BIG", IntConst(v)) : v \in {255, 256}}

\* the visit of statement s returned r
Visited(s, r) ==
    /\ program' = <<s>>
    /\ unit' = Unit([err |-> r.err, ctx |-> r.ctx, code |-> r.code])
    /\ symbols' = r.ctx.symbols
    /\ next_address' = r.ctx.next_address
    /\ declared' = IF s.t = "variable_declaration" /\ r.err = ""
                   THEN Append(declared, s.name) ELSE declared
    /\ UNCHANGED <<peepVars, input, tapeSize, wrap, turn, irVars, bfVars>>

VisitStatement(s) ==
    /\ unit.err = ""
    /\ next_address <= MaxAddress
    /\ Visited(s, LowerStmt(s, unit.ctx))

InitVisit == SymIdle /\ PeepIdle /\ RunIdle
NextVisit == \E s \in VisitStatements : VisitStatement(s)
SpecVisit == InitVisit /\ [][NextVisit]_vars

OperandsInRange(ir) ==
    \A i \in 1..Len(ir) :
        ir[i].op \in {"LOAD_A_IMM", "LOAD_B_IMM", "LOAD_A_MEM", "LOAD_B_MEM", "STORE_A"}
            => ir[i].arg \in 0..255

\* the numeric literals of an expression, #define'd names by their value
RECURSIVE LiteralsOf(_, _)
LiteralsOf(e, ctx) ==
    CASE e.t \in {"number", "character"} -> {e.v}
      [] e.t = "variable" ->
           IF e.name \in DOMAIN ctx.defined_constants
                /\ ctx.defined_constants[e.name].kind = "int"
           THEN {ctx.defined_constants[e.name].v} ELSE {}
      [] e.t = "parenthesized" -> LiteralsOf(e.e, ctx)
      [] OTHER -> LiteralsOf(e.l, ctx) \cup LiteralsOf(e.r, ctx)

RECURSIVE NamesOf(_)
NamesOf(e) ==
    CASE e.t \in {"number", "character"} -> {}
      [] e.t = "variable" -> {e.name}
      [] e.t = "parenthesized" -> NamesOf(e.e)
      [] OTHER -> NamesOf(e.l) \cup NamesOf(e.r)

\* C11: the IR of a statement that lowers without error has every immediate
\* and every address operand in 0..255, and a statement whose expression uses
\* a literal or a #define'd value outside 0..255 (its names all known) is
\* not lowered: the visit raises the out-of-range error.
C11_OperandsAreBytes ==
    program # <<>> =>
        /\ unit.err = "" => OperandsInRange(unit.ir)
        /\ (/\ program[1].t = "variable_declaration"
            /\ LiteralsOf(program[1].e, unit.ctx) \ (0..255) # {}
            /\ NamesOf(program[1].e)
                 \subseteq DOMAIN unit.ctx.symbols \cup DOMAIN unit.ctx.defined_constants)
             => unit.err = "out of range for 8-bit processor" /\ unit.ir = <<>>

(***************************************************************************)
(* The answer program: input(c); if (c == 'y') { output('Y'); } else       *)
(* { output('N'); }, as it stands and after var c = 0;, lowered by         *)
(* compile_with_includes and run by the IR machine on every input byte.    *)
(***************************************************************************)
PAsk == <<InputStmt("c"),
          IfElse(Bin("equal", Var("c"), Chr(121)), <<Output(Chr(89))>>, <<Output(Chr(78))>>)>>
PAskDeclared == <<Decl("c", Num(0))>> \o PAsk

InitAsk ==
    /\ SymIdle /\ PeepIdle
    /\ program \in {PAsk, PAskDeclared}
    /\ unit = Lower(program)
    /\ input \in [1..NumInputs(unit) -> 0..(CellMod - 1)]
    /\ RunStart(FALSE)

\* the IR machine does not stop while it has an instruction to run
SpecAsk == InitAsk /\ [][IRRun]_vars /\ WF_vars(IRRun)

\* the program has lowered, and a finished run has read one byte and printed
\* 'Y' for 'y' and 'N' for any other byte
AnswersYesNo ==
    /\ unit.err = ""
    /\ IsPrefix(irIO, <<InEvent(input[1]), OutEvent(IF input[1] = 121 THEN 89 ELSE 78)>>)
    /\ IRHalted(unit) =>
          irIO = <<InEvent(input[1]), OutEvent(IF input[1] = 121 THEN 89 ELSE 78)>>

\* C12 as stated: the program with no declaration of c lowers without error,
\* and its IR prints 'Y' when the input byte is 'y' and 'N' for every other
\* input byte.
C12_AskLowersUndeclared == program = PAsk => AnswersYesNo

\* C12, amended: the program lowers without error once c is declared before
\* input(c) (var c = 0;), and its IR then reads one byte, prints 'Y' when the
\* byte is 'y' (0x79) and 'N' for every other byte, and halts.
C12_AskDeclaredAnswers ==
    /\ [](program = PAskDeclared => AnswersYesNo)
    /\ <>(program = PAskDeclared => IRHalted(unit))

\* a run on the byte 'y' has printed 'Y' and halted
C12_Witness ==
    /\ program = PAskDeclared /\ IRHalted(unit)
    /\ irIO = <<InEvent(121), OutEvent(89)>>


\* the instruction that loads a plain right operand r into REG_B
RightOperandLoad(r, ctx) ==
    IF r.t = "variable" /\ r.name \notin DOMAIN ctx.defined_constants
    THEN Instr("LOAD_B_MEM", get_address(ctx, r.name))
    ELSE Instr("LOAD_B_IMM", IF r.t = "variable" THEN ctx.defined_constants[r.name].v ELSE r.v)

PlainRight(e) == e.t \in {"add", "subtract"} /\ e.r.t \in {"number", "character", "variable"}

\* the instructions of the program's last statement, output(e)
OutputIR == SubSeq(unit.ir, Len(Lower(SubSeq(program, 1, 4)).ir) + 1, Len(unit.ir))

\* C13: when the right operand of "+" or "-" is a variable, a literal or a
\* #define'd constant, the operation is lowered to the left operand's code,
\* then LOAD_B_MEM a (variable) or LOAD_B_IMM v (literal, constant), then ADD
\* or SUB, with no STORE_A to a scratch address.
C13_PlainRightSkipsSpill ==
    (AtStart /\ PlainRight(program[5].e)) =>
        OutputIR = SelectSeq(LowerExpr(program[5].e.l, unit.ctx).code, IsInstruction)
                     \o <<RightOperandLoad(program[5].e.r, unit.ctx),
                          Instr(IF program[5].e.t = "add" THEN "ADD" ELSE "SUB", 0),
                          Instr("OUT_A", 0)>>


\* the instructions of the body of the if statement program[3], lowered in
\* the context the statements before it leave
IfBodyIR ==
    SubSeq(Lower(SubSeq(program, 1, 2) \o program[3].body).ir,
           Len(Lower(SubSeq(program, 1, 2)).ir) + 1,
           Len(Lower(SubSeq(program, 1, 2) \o program[3].body).ir))

\* the instructions of the condition of the if statement program[3]
IfCondIR == SelectSeq(LowerExpr(program[3].cond, unit.ctx).code, IsInstruction)

\* where the LOOP_START after the condition's code stands in unit.ir
IfLoopStart == Len(Lower(SubSeq(program, 1, 2)).ir) + Len(IfCondIR) + 1

Positions(ir, op) == {i \in 1..Len(ir) : ir[i].op = op}

\* after the condition's code come LOOP_START, the body's instructions in
\* order and, with no other loop in between, the LOOP_END that ends the
\* statement
BodyInsideOneLoop ==
    /\ SubSeq(unit.ir, IfLoopStart - Len(IfCondIR), IfLoopStart + Len(IfBodyIR))
          = IfCondIR \o <<loop_start>> \o IfBodyIR
    /\ unit.irMatch[IfLoopStart] > IfLoopStart + Len(IfBodyIR)
    /\ unit.irMatch[IfLoopStart] = Len(unit.ir) - Len(Lower(<<program[4]>>).ir)
    /\ Positions(unit.ir, "LOOP_START") \cap (IfLoopStart + 1)..Len(unit.ir) = {}

\* the value of the condition of the if statement program[3] in the run
IfCondValue == Eval(program[3].cond, Meaning(SubSeq(program, 1, 2), input))

\* C14: an if statement without else, its body n >= 1 statements, is lowered
\* without a go_else symbol, the code of all its body statements in order
\* inside the one LOOP_START/LOOP_END pair the condition gates; no body
\* statement runs when the condition is zero.
C14_PlainIfBodyInsideLoop ==
    program \in PlainIfPrograms \cup PlainBlockIfPrograms =>
        /\ DOMAIN unit.ctx.symbols = {"x"}
        /\ AtStart => BodyInsideOneLoop
        /\ IfCondValue = 0 => FollowsMeaning

(***************************************************************************)
(* One Parser instance: parse is called on one IR text after the other.    *)
(* unit holds the rows of the last call and the BF text it returned.       *)
(***************************************************************************)
MaxRows == 2        \* IR texts given to parse have at most MaxRows rows

ParseRowChoices == {Instr("LOAD_A_IMM", 1), Instr("LOAD_B_IMM", 1), Instr("STORE_A", 0),
                    Instr("LOAD_B_MEM", 1), Instr("ADD", 0), Instr("OUT_B", 0),
                    Instr("LOOP_START", 0), Instr("LOOP_END", 0), Comment}
ParseInputs == UNION {[1..n -> ParseRowChoices] : n \in 0..MaxRows}

\* parse(instructions) has returned r
ParseReturned(instructions, r) ==
    /\ unit' = WithBF(Unit([err |-> "", ctx |-> InitCtx, code |-> instructions]), r)
    /\ self_cursor' = r.cursor
    /\ UNCHANGED <<symVars, code, original, peep, self_debug, program, input, tapeSize, wrap,
                   turn, irVars, bfVars>>

ParseCall(instructions) == ParseReturned(instructions, parse(instructions, self_cursor, self_debug))

\* Parser.__init__: cursor = 0, debug as given
InitParser ==
    /\ SymIdle /\ RunIdle
    /\ code = <<>> /\ original = <<>> /\ peep = "done"
    /\ self_cursor = 0 /\ self_debug \in BOOLEAN

NextParser == \E instructions \in ParseInputs : ParseCall(instructions)
SpecParser == InitParser /\ [][NextParser]_vars

\* C15: whatever parse calls the Parser instance has served before, parse(ir)
\* returns the BF text that parse(ir) returns on a freshly constructed Parser
\* (cursor 0) with the same debug flag.
C15_ParseStartsAtZero == unit.bf = parse(unit.rows, 0, self_debug).code

====
